---- MODULE Spec2Model ----
(***************************************************************************)
(* Conway's Game of Life: the dense row-major Grid (src/src/cell/grid.rs)  *)
(* and the generation engines (src/src/engine/serial.rs, parallel.rs).     *)
(* Rows and columns are 0-based as in the source; TLA+ sequences are       *)
(* 1-based, so the cell at flat index k is cells[k + 1].                   *)
(***************************************************************************)
EXTENDS Integers, Sequences, FiniteSets, TLC

VARIABLES grid, next, pc, mode, cursor, rowUnits, cellUnits, owners, gen,
          call, writes

vars == <<grid, next, pc, mode, cursor, rowUnits, cellUnits, owners, gen,
          call, writes>>

(* ------------------------------ bounds ---------------------------------- *)
MaxRows == 3
MaxCols == 3
MaxCells == 9
MaxGen == 4
MaxWrites == 1
MaxFromRows == 2
MaxFromCols == 2
UsizeBits == 5

UsizeMax == 2 ^ UsizeBits - 1

(* ------------------------------- Cell ----------------------------------- *)
Dead == "Dead"
Live == "Live"
Cell == {Dead, Live}

is_live(c) == c = Live
is_dead(c) == c = Dead

(* Option<T>: None is the empty tuple, Some(x) the one-element tuple.       *)
None == <<>>
Some(x) == <<x>>

(* The result of an operation that ended in a panic, where a grid or a     *)
(* cell was expected.                                                       *)
Panic == [panic |-> TRUE]

(* usize::saturating_sub.                                                   *)
saturating_sub(a, b) == IF a >= b THEN a - b ELSE 0

(* usize::checked_mul on a machine word of UsizeBits bits.                  *)
checked_mul(a, b) == IF a * b > UsizeMax THEN None ELSE Some(a * b)

(* ------------------------------- Grid ----------------------------------- *)
new_with(rows_, columns_, cell) ==
    LET n == checked_mul(rows_, columns_)
    IN  IF n = None
        THEN Panic
        ELSE [cells |-> [k \in 1..n[1] |-> cell], columns |-> columns_]

new(rows_, columns_) == new_with(rows_, columns_, Dead)

empty == new(0, 0)

columns(g) == g.columns
cells(g) == Len(g.cells)
rows(g) == IF columns(g) > 0 THEN cells(g) \div columns(g) ELSE 0
shape(g) == <<rows(g), columns(g)>>

get_unchecked(g, row) ==
    LET start == row * g.columns
    IN  SubSeq(g.cells, start + 1, start + g.columns)

get(g, row) ==
    LET m == checked_mul(row, g.columns)
    IN  IF m = None THEN None
        ELSE IF m[1] < cells(g) THEN Some(get_unchecked(g, row))
        ELSE None

slice_get(slice, col) ==
    IF col < Len(slice) THEN Some(slice[col + 1]) ELSE None

(* Variant: the flat buffer is indexed without the per-row column check.    *)
get_cell_flat(g, row, col) ==
    LET m == checked_mul(row, g.columns)
    IN  IF m = None THEN None ELSE slice_get(g.cells, m[1] + col)

get_cell(g, row, col) ==
    LET s == get(g, row)
    IN  IF s = None THEN None ELSE slice_get(s[1], col)

get_unchecked_mut(g, row) ==
    LET start == row * g.columns
    IN  [k \in 1..g.columns |-> start + k]

(* The mutable row view, as the flat positions (1-based) it borrows.        *)
get_mut(g, row) ==
    LET m == checked_mul(row, g.columns)
    IN  IF m = None THEN None
        ELSE IF m[1] < cells(g) THEN Some(get_unchecked_mut(g, row))
        ELSE None

get_cell_mut(g, row, col) ==
    LET s == get_mut(g, row)
    IN  IF s = None THEN None ELSE slice_get(s[1], col)

(* try_from: the first row fixes the number of columns; the rows are        *)
(* appended in order; a row of another length ends the loop with None.      *)
RECURSIVE try_from_loop(_, _, _, _)
try_from_loop(input, i, columns_, acc) ==
    IF i > Len(input) THEN Some([cells |-> acc, columns |-> columns_])
    ELSE IF Len(input[i]) # columns_ THEN None
    ELSE try_from_loop(input, i + 1, columns_, acc \o input[i])

try_from(input) ==
    LET columns_ == IF Len(input) > 0 THEN Len(input[1]) ELSE 0
    IN  try_from_loop(input, 1, columns_, <<>>)

(* Grid[row][col]: panics when the row or the column is out of bounds.      *)
index(g, row, col) ==
    LET c == get_cell(g, row, col)
    IN  IF c = None THEN Panic ELSE c[1]

(* slice::chunks_exact, chunks_exact_mut and rayon's par_ variants assert   *)
(* that the chunk size is not zero and panic otherwise.                     *)
chunks_panic(size) == size = 0

(* slice::chunks_exact / par_chunks_exact: the rows, as values (size > 0).  *)
chunks_exact(s, size) ==
    [i \in 1..(Len(s) \div size) |-> SubSeq(s, (i - 1) * size + 1, i * size)]

(* slice::chunks_exact_mut / par_chunks_exact_mut: the mutable row views,   *)
(* each view being the flat positions (1-based) of the buffer it borrows    *)
(* (size > 0).                                                              *)
(* Variant: consecutive views start one position too early and overlap.    *)
chunks_exact_mut_overlapping(s, size) ==
    [i \in 1..(Len(s) \div size) |-> [k \in 1..size |-> (i - 1) * (size - 1) + k]]

chunks_exact_mut(s, size) ==
    [i \in 1..(Len(s) \div size) |-> [k \in 1..size |-> (i - 1) * size + k]]

iter_panics(g) == chunks_panic(g.columns)
iter(g) == chunks_exact(g.cells, g.columns)
iter_mut(g) == chunks_exact_mut(g.cells, g.columns)
par_iter_mut(g) == chunks_exact_mut(g.cells, g.columns)

(* --------------------------- SerialEngine ------------------------------- *)
(* The positions the two nested loops visit: start..start+3, exclusive.     *)
Serial_window(row, col) ==
    LET start_row == saturating_sub(row, 1)
        start_col == saturating_sub(col, 1)
    IN  (start_row..(start_row + 3 - 1)) \X (start_col..(start_col + 3 - 1))

Serial_live_cells(g, row, col) ==
    Cardinality({p \in Serial_window(row, col) :
                    /\ p # <<row, col>>
                    /\ get_cell(g, p[1], p[2]) = Some(Live)})

Serial_next_cell_at(g, row, col) ==
    LET live_cells == Serial_live_cells(g, row, col)
    IN  IF live_cells = 3 \/ (live_cells = 2 /\ is_live(index(g, row, col)))
        THEN Live
        ELSE Dead

(* The body of the inner loop: *cell = Live when the next cell is live.     *)
Serial_body(g, nxt, row, col, pos) ==
    IF is_live(Serial_next_cell_at(g, row, col))
    THEN [nxt EXCEPT !.cells[pos] = Live]
    ELSE nxt

RECURSIVE Serial_scan(_, _, _, _, _)
Serial_scan(g, nxt, views, row, col) ==
    IF row >= Len(views) THEN nxt
    ELSE IF col >= Len(views[row + 1]) THEN Serial_scan(g, nxt, views, row + 1, 0)
    ELSE Serial_scan(g, Serial_body(g, nxt, row, col, views[row + 1][col + 1]),
                     views, row, col + 1)

Serial_prepare_next_grid(g) ==
    LET nxt == new_with(rows(g), columns(g), Dead)
    IN  IF nxt = Panic THEN Panic
        ELSE IF iter_panics(nxt) THEN Panic
        ELSE Serial_scan(g, nxt, iter_mut(nxt), 0, 0)

(* -------------------------- ParallelEngine ------------------------------ *)
(* The positions the two nested loops visit: start..start+3, exclusive.     *)
Parallel_window(row, col) ==
    LET start_row == saturating_sub(row, 1)
        start_col == saturating_sub(col, 1)
    IN  (start_row..(start_row + 3 - 1)) \X (start_col..(start_col + 3 - 1))

Parallel_live_cells(g, row, col) ==
    Cardinality({p \in Parallel_window(row, col) :
                    /\ p # <<row, col>>
                    /\ get_cell(g, p[1], p[2]) = Some(Live)})

(* Variant: a cell is Live only by birth, the survival case is lost.        *)
Parallel_next_cell_at_birth_only(g, row, col) ==
    LET live_cells == Parallel_live_cells(g, row, col)
    IN  IF live_cells = 3 THEN Live ELSE Dead

Parallel_next_cell_at(g, row, col) ==
    LET live_cells == Parallel_live_cells(g, row, col)
    IN  IF live_cells = 3 \/ (live_cells = 2 /\ is_live(index(g, row, col)))
        THEN Live
        ELSE Dead

(* ----------------------------- state ------------------------------------ *)
NoGrid == [cells |-> <<>>, columns |-> 0]
NoCall == [op |-> "none"]

(* Every grid the constructors can build within the bounds.                 *)
GridsOfColumns(c) ==
    {[cells |-> cs, columns |-> c] :
        cs \in UNION {[1..(r * c) -> Cell] : r \in {q \in 0..MaxRows : q * c <= MaxCells}}}

BoundedGrids == UNION {GridsOfColumns(c) : c \in 0..MaxCols}

EngineIdle ==
    /\ next = NoGrid
    /\ pc = "idle"
    /\ mode = "none"
    /\ cursor = <<0, 0>>
    /\ rowUnits = {}
    /\ cellUnits = {}
    /\ owners = <<>>
    /\ gen = 0
    /\ call = NoCall
    /\ writes = 0

Init ==
    /\ grid \in BoundedGrids
    /\ EngineIdle

(* ------------------------ SerialEngine steps ---------------------------- *)
SerialStart ==
    /\ pc = "idle"
    /\ gen < MaxGen
    /\ mode' = "Serial"
    /\ LET nxt == new_with(rows(grid), columns(grid), Dead)
       IN  IF nxt = Panic \/ iter_panics(nxt)
           THEN /\ pc' = "panic"
                /\ next' = NoGrid
           ELSE /\ pc' = "serial"
                /\ next' = nxt
    /\ cursor' = <<0, 0>>
    /\ UNCHANGED <<grid, rowUnits, cellUnits, owners, gen, call, writes>>

SerialCell ==
    /\ pc = "serial"
    /\ LET views == iter_mut(next)
           row == cursor[1]
           col == cursor[2]
       IN  /\ row < Len(views)
           /\ next' = Serial_body(grid, next, row, col, views[row + 1][col + 1])
           /\ cursor' = IF col + 1 < Len(views[row + 1])
                        THEN <<row, col + 1>>
                        ELSE <<row + 1, 0>>
    /\ UNCHANGED <<grid, pc, mode, rowUnits, cellUnits, owners, gen, call, writes>>

SerialFinish ==
    /\ pc = "serial"
    /\ cursor[1] >= Len(iter_mut(next))
    /\ pc' = "done"
    /\ UNCHANGED <<grid, next, mode, cursor, rowUnits, cellUnits, owners, gen, call, writes>>

(* ----------------------- ParallelEngine steps --------------------------- *)
ParStart ==
    /\ pc = "idle"
    /\ gen < MaxGen
    /\ mode' = "Parallel"
    /\ LET nxt == new_with(rows(grid), columns(grid), Dead)
       IN  IF nxt = Panic \/ iter_panics(nxt)
           THEN /\ pc' = "panic"
                /\ next' = NoGrid
                /\ rowUnits' = {}
                /\ owners' = <<>>
           ELSE /\ pc' = "parallel"
                /\ next' = nxt
                /\ rowUnits' = {i - 1 : i \in DOMAIN par_iter_mut(nxt)}
                /\ owners' = [k \in 1..cells(nxt) |-> {}]
    /\ cellUnits' = {}
    /\ UNCHANGED <<grid, cursor, gen, call, writes>>

(* The work unit of one row view splits it into one unit per cell.          *)
ParRow(row) ==
    /\ pc = "parallel"
    /\ row \in rowUnits
    /\ LET view == par_iter_mut(next)[row + 1]
       IN  cellUnits' = cellUnits \cup
               {[row |-> row, col |-> k - 1, pos |-> view[k]] : k \in DOMAIN view}
    /\ rowUnits' = rowUnits \ {row}
    /\ UNCHANGED <<grid, next, pc, mode, cursor, owners, gen, call, writes>>

ParCell(u) ==
    /\ pc = "parallel"
    /\ u \in cellUnits
    /\ next' = IF is_live(Parallel_next_cell_at(grid, u.row, u.col))
               THEN [next EXCEPT !.cells[u.pos] = Live]
               ELSE next
    /\ owners' = [owners EXCEPT ![u.pos] = @ \cup {<<u.row, u.col>>}]
    /\ cellUnits' = cellUnits \ {u}
    /\ UNCHANGED <<grid, pc, mode, cursor, rowUnits, gen, call, writes>>

ParFinish ==
    /\ pc = "parallel"
    /\ rowUnits = {}
    /\ cellUnits = {}
    /\ pc' = "done"
    /\ UNCHANGED <<grid, next, mode, cursor, rowUnits, cellUnits, owners, gen, call, writes>>

(* The driver replaces its current grid by the engine's result.             *)
Replace ==
    /\ pc = "done"
    /\ grid' = next
    /\ next' = NoGrid
    /\ pc' = "idle"
    /\ gen' = gen + 1
    /\ owners' = <<>>
    /\ UNCHANGED <<mode, cursor, rowUnits, cellUnits, call, writes>>

Next ==
    \/ SerialStart
    \/ SerialCell
    \/ SerialFinish
    \/ ParStart
    \/ \E row \in 0..MaxRows : ParRow(row)
    \/ \E u \in cellUnits : ParCell(u)
    \/ ParFinish
    \/ Replace

Spec == Init /\ [][Next]_vars

(* --------------------------- blinker run -------------------------------- *)
GridWithLive(rows_, columns_, live) ==
    [cells |-> [k \in 1..(rows_ * columns_) |->
                    IF <<(k - 1) \div columns_, (k - 1) % columns_>> \in live
                    THEN Live ELSE Dead],
     columns |-> columns_]

HorizontalBlinker == GridWithLive(5, 5, {<<2, 1>>, <<2, 2>>, <<2, 3>>})
VerticalBlinker == GridWithLive(5, 5, {<<1, 2>>, <<2, 2>>, <<3, 2>>})

InitBlinker ==
    /\ grid = HorizontalBlinker
    /\ EngineIdle

NextSerial ==
    \/ SerialStart
    \/ SerialCell
    \/ SerialFinish
    \/ Replace

SpecBlinker == InitBlinker /\ [][NextSerial]_vars

(* ----------------- Grid construction and accessors ---------------------- *)
DimInputs(max) == (0..max) \cup {UsizeMax}
IndexInputs(max) == (0..max) \cup {UsizeMax}

RowInputs == UNION {[1..n -> Cell] : n \in 0..MaxFromCols}
FromInputs == UNION {[1..n -> RowInputs] : n \in 0..MaxFromRows}

InitGrid ==
    /\ grid = empty
    /\ EngineIdle

(* One behaviour follows one grid: it is constructed once, then accessed.   *)
Fresh == pc = "idle" /\ call = NoCall

Construct(g, c) ==
    /\ Fresh
    /\ IF g = Panic
       THEN pc' = "panic" /\ grid' = grid
       ELSE pc' = pc /\ grid' = g
    /\ call' = c
    /\ writes' = 0
    /\ UNCHANGED <<next, mode, cursor, rowUnits, cellUnits, owners, gen>>

CallNew(rows_, columns_) ==
    Construct(new(rows_, columns_),
              [op |-> "new", rows |-> rows_, columns |-> columns_, cell |-> Dead])

CallNewWith(rows_, columns_, cell) ==
    Construct(new_with(rows_, columns_, cell),
              [op |-> "new_with", rows |-> rows_, columns |-> columns_, cell |-> cell])

CallTryFrom(input) ==
    /\ Fresh
    /\ LET ret == try_from(input)
       IN  /\ grid' = IF ret = None THEN grid ELSE ret[1]
           /\ call' = [op |-> "try_from", input |-> input, ret |-> ret]
    /\ writes' = 0
    /\ UNCHANGED <<next, pc, mode, cursor, rowUnits, cellUnits, owners, gen>>

(* Sequential row-wise iteration over the grid, collecting the rows; src is *)
(* the input of the try_from call that has just built the grid, if any.     *)
CallIter ==
    /\ pc = "idle"
    /\ LET src == IF call.op = "try_from" /\ call.ret # None
                  THEN Some(call.input) ELSE None
       IN  IF iter_panics(grid)
           THEN /\ pc' = "panic"
                /\ call' = [op |-> "iter", src |-> src, ret |-> <<>>]
           ELSE /\ pc' = pc
                /\ call' = [op |-> "iter", src |-> src, ret |-> iter(grid)]
    /\ UNCHANGED <<grid, next, mode, cursor, rowUnits, cellUnits, owners, gen, writes>>

CallGetCell(row, col) ==
    /\ pc = "idle"
    /\ call' = [op |-> "get_cell", row |-> row, col |-> col,
                ret |-> get_cell(grid, row, col)]
    /\ UNCHANGED <<grid, next, pc, mode, cursor, rowUnits, cellUnits, owners, gen, writes>>

(* An accessor write: *grid.get_cell_mut(row, col)? = cell.                 *)
CallSetCell(row, col, cell) ==
    /\ pc = "idle"
    /\ writes < MaxWrites
    /\ LET target == get_cell_mut(grid, row, col)
       IN  /\ grid' = IF target = None THEN grid
                      ELSE [grid EXCEPT !.cells[target[1]] = cell]
           /\ call' = [op |-> "get_cell_mut", row |-> row, col |-> col,
                       cell |-> cell, ret |-> target]
    /\ writes' = writes + 1
    /\ UNCHANGED <<next, pc, mode, cursor, rowUnits, cellUnits, owners, gen>>

NextGrid ==
    \/ Fresh /\ \E r \in DimInputs(MaxRows), c \in DimInputs(MaxCols) : CallNew(r, c)
    \/ Fresh /\ \E r \in DimInputs(MaxRows), c \in DimInputs(MaxCols), v \in Cell : CallNewWith(r, c, v)
    \/ Fresh /\ \E input \in FromInputs : CallTryFrom(input)
    \/ CallIter
    \/ \E r \in IndexInputs(MaxRows), c \in IndexInputs(MaxCols) : CallGetCell(r, c)
    \/ \E r \in IndexInputs(MaxRows), c \in IndexInputs(MaxCols), v \in Cell : CallSetCell(r, c, v)

SpecGrid == InitGrid /\ [][NextGrid]_vars

(* ------------------------------ driver ---------------------------------- *)
MaxIter == 2

(* The ParallelEngine's result as a function of its input: every cell view  *)
(* of every row view is written by its own unit, in whatever order.         *)
Parallel_prepare_next_grid(g) ==
    LET nxt == new_with(rows(g), columns(g), Dead)
    IN  IF nxt = Panic THEN Panic
        ELSE IF iter_panics(nxt) THEN Panic
        ELSE LET views == par_iter_mut(nxt)
                 live == {views[r][c] : <<r, c>> \in
                             {q \in (1..Len(views)) \X (1..columns(nxt)) :
                                 is_live(Parallel_next_cell_at(g, q[1] - 1, q[2] - 1))}}
             IN  [nxt EXCEPT !.cells = [k \in DOMAIN nxt.cells |->
                                           IF k \in live THEN Live ELSE nxt.cells[k]]]

(* engine.update(&grid) for the engine main selected.                       *)
update(m, g) ==
    IF m = "Parallel" THEN Parallel_prepare_next_grid(g) ELSE Serial_prepare_next_grid(g)

(* Grid::random(height, width) for small heights and widths.                *)
DriverGrids == {g \in BoundedGrids : cells(g) <= MaxCols}

(* cli.iterations: None, or Some(n).                                        *)
IterationsInputs == {None} \cup {Some(n) : n \in 0..MaxIter}

(* main: max_iter = cli.iterations.unwrap_or(usize::MAX); the loop runs in  *)
(* run_non_stop (no_render) or in run_interactive.                          *)
InitDriver ==
    /\ grid \in DriverGrids
    /\ next = NoGrid
    /\ pc = "idle"
    /\ mode \in {"Serial", "Parallel"}
    /\ cursor = <<0, 0>>
    /\ rowUnits = {}
    /\ cellUnits = {}
    /\ owners = <<>>
    /\ gen = 0
    /\ \E it \in IterationsInputs, f \in {"run_non_stop", "run_interactive"} :
          call = [op |-> f, iterations |-> it,
                  max_iter |-> IF it = None THEN UsizeMax ELSE it[1], i |-> 0]
    /\ writes = 0

(* One pass of the body of `for _ in 0 ..= max_iter`, with its update.      *)
LoopUpdate ==
    /\ pc = "idle"
    /\ call.i <= call.max_iter
    /\ LET g == update(mode, grid)
       IN  IF g = Panic
           THEN pc' = "panic" /\ UNCHANGED <<grid, gen, call>>
           ELSE /\ grid' = g
                /\ gen' = gen + 1
                /\ call' = [call EXCEPT !.i = @ + 1]
                /\ pc' = pc
    /\ UNCHANGED <<next, mode, cursor, rowUnits, cellUnits, owners, writes>>

RunNonStopIter ==
    /\ call.op = "run_non_stop"
    /\ LoopUpdate

(* renderer.next_update() returns Some(()) once an update event has run     *)
(* Renderer::update; events that update nothing leave the state as it is.   *)
RunInteractiveIter ==
    /\ call.op = "run_interactive"
    /\ LoopUpdate

(* renderer.next_update() returns None: the window is closed.               *)
RunInteractiveClosed ==
    /\ pc = "idle"
    /\ call.op = "run_interactive"
    /\ call.i <= call.max_iter
    /\ pc' = "exit"
    /\ UNCHANGED <<grid, next, mode, cursor, rowUnits, cellUnits, owners, gen, call, writes>>

(* The range 0 ..= max_iter is exhausted.                                   *)
LoopExit ==
    /\ pc = "idle"
    /\ call.op \in {"run_non_stop", "run_interactive"}
    /\ call.i > call.max_iter
    /\ pc' = "exit"
    /\ UNCHANGED <<grid, next, mode, cursor, rowUnits, cellUnits, owners, gen, call, writes>>

NextDriver ==
    \/ RunNonStopIter
    \/ RunInteractiveIter
    \/ RunInteractiveClosed
    \/ LoopExit

SpecDriver == InitDriver /\ [][NextDriver]_vars

(* ---------------------- the stateful SerialEngine ----------------------- *)
(* update_grid: the held grid is replaced by its successor and returned     *)
(* (std::mem::replace).                                                     *)
update_grid(held) ==
    LET nxt == Serial_prepare_next_grid(held)
    IN  IF nxt = Panic THEN Panic ELSE [ret |-> held, grid |-> nxt]

(* The engine after SerialEngine::new(rows, columns) and set_grid: it holds *)
(* any grid within the bounds.                                              *)
InitSerial ==
    /\ grid \in BoundedGrids
    /\ EngineIdle

(* A call of next_grid (f = "next_grid") or of Iter::next (f = "next"),     *)
(* which wraps next_grid's result in Some.  The record keeps the grid held  *)
(* before the call, and the grid held before the first call of the run of   *)
(* calls this one belongs to, with the call's number k in that run.         *)
CallEngine(f) ==
    /\ pc = "idle"
    /\ gen < MaxGen
    /\ LET r == update_grid(grid)
           inRun == call.op \in {"next_grid", "next"}
           base == IF inRun THEN call.base ELSE grid
           k == IF inRun THEN call.k + 1 ELSE 1
       IN  IF r = Panic
           THEN /\ pc' = "panic"
                /\ grid' = grid
                /\ call' = [op |-> f, held |-> grid, base |-> base, k |-> k, ret |-> None]
           ELSE /\ pc' = pc
                /\ grid' = r.grid
                /\ call' = [op |-> f, held |-> grid, base |-> base, k |-> k,
                            ret |-> IF f = "next" THEN Some(Some(r.ret)) ELSE Some(r.ret)]
    /\ gen' = gen + 1
    /\ UNCHANGED <<next, mode, cursor, rowUnits, cellUnits, owners, writes>>

CallNextGrid == CallEngine("next_grid")

CallIterNext == CallEngine("next")

NextSerialEngine ==
    \/ CallNextGrid
    \/ CallIterNext

SpecSerial == InitSerial /\ [][NextSerialEngine]_vars

(* ----------------------------- set_grid_at ------------------------------ *)
MaxSrcCells == 4

(* usize `+`: on overflow a build with overflow checks panics (None), a     *)
(* build without them wraps around.                                         *)
usize_add(a, b, build) ==
    IF a + b > UsizeMax
    THEN IF build = "checked" THEN None ELSE Some((a + b) % (UsizeMax + 1))
    ELSE Some(a + b)

(* The two loops of set_grid_at over the rows and cells of the source, from *)
(* source position (row, col) on.                                           *)
RECURSIVE set_grid_at_loop(_, _, _, _, _, _)
set_grid_at_loop(held, src, row, col, start, build) ==
    IF row >= Len(src) THEN [grid |-> held, panic |-> FALSE]
    ELSE IF col >= Len(src[row + 1])
    THEN set_grid_at_loop(held, src, row + 1, 0, start, build)
    ELSE LET r == usize_add(start[1], row, build)
             c == usize_add(start[2], col, build)
         IN  IF r = None \/ c = None
             THEN [grid |-> held, panic |-> TRUE]
             ELSE LET target == get_cell_mut(held, r[1], c[1])
                      written == IF target = None THEN held
                                 ELSE [held EXCEPT !.cells[target[1]] = src[row + 1][col + 1]]
                  IN  set_grid_at_loop(written, src, row, col + 1, start, build)

set_grid_at(held, g, start, build) ==
    IF iter_panics(g)
    THEN [grid |-> held, panic |-> TRUE]
    ELSE set_grid_at_loop(held, iter(g), 0, 0, start, build)

(* Held grids and source grids of at most MaxFromRows x MaxFromCols.        *)
SeedGridsOfColumns(c) ==
    {[cells |-> cs, columns |-> c] :
        cs \in UNION {[1..(r * c) -> Cell] : r \in {q \in 0..MaxFromRows : q * c <= MaxSrcCells}}}

SeedGrids == UNION {SeedGridsOfColumns(c) : c \in 0..MaxFromCols}

StartInputs == IndexInputs(1) \X IndexInputs(1)

Builds == {"checked", "wrapping"}

InitSeed ==
    /\ grid \in SeedGrids
    /\ EngineIdle

Seed(f, g, start, build) ==
    /\ pc = "idle"
    /\ writes < MaxWrites
    /\ LET r == set_grid_at(grid, g, start, build)
       IN  /\ grid' = r.grid
           /\ pc' = IF r.panic THEN "panic" ELSE pc
    /\ call' = [op |-> f, src |-> g, start |-> start, build |-> build, before |-> grid]
    /\ writes' = writes + 1
    /\ UNCHANGED <<next, mode, cursor, rowUnits, cellUnits, owners, gen>>

CallSetGridAt(g, start, build) == Seed("set_grid_at", g, start, build)

CallSetGrid(g, build) == Seed("set_grid", g, <<0, 0>>, build)

NextSeed ==
    \/ \E g \in SeedGrids, start \in StartInputs, build \in Builds : CallSetGridAt(g, start, build)
    \/ \E g \in SeedGrids, build \in Builds : CallSetGrid(g, build)

SpecSeed == InitSeed /\ [][NextSeed]_vars

(* ------------------------- reference operators -------------------------- *)
InGrid(g, i, j) == i \in 0..(rows(g) - 1) /\ j \in 0..(columns(g) - 1)

Positions(g) == (0..(rows(g) - 1)) \X (0..(columns(g) - 1))

Max(a, b) == IF a >= b THEN a ELSE b

(* The in-grid positions at row and column distance at most 1, centre       *)
(* excluded.                                                                *)
Adjacent(g, row, col) ==
    {p \in Positions(g) :
        /\ Max(row - 1, 0) <= p[1] /\ p[1] < row + 2
        /\ Max(col - 1, 0) <= p[2] /\ p[2] < col + 2
        /\ p # <<row, col>>}

LiveAdjacent(g, row, col) ==
    Cardinality({p \in Adjacent(g, row, col) : g.cells[p[1] * g.columns + p[2] + 1] = Live})

(* The classical rule on a finite non-toroidal grid.                        *)
Classical(g, row, col) ==
    LET n == LiveAdjacent(g, row, col)
    IN  IF n = 3 \/ (n = 2 /\ g.cells[row * g.columns + col + 1] = Live)
        THEN Live
        ELSE Dead

(* The in-grid positions, centre excluded, that the engine in use examines. *)
Examined(g, row, col) ==
    {p \in (IF mode = "Parallel" THEN Parallel_window(row, col) ELSE Serial_window(row, col)) :
        p # <<row, col>> /\ get_cell(g, p[1], p[2]) # None}

LiveExamined(g, row, col) ==
    IF mode = "Parallel" THEN Parallel_live_cells(g, row, col) ELSE Serial_live_cells(g, row, col)

EngineNextCellAt(g, row, col) ==
    IF mode = "Parallel" THEN Parallel_next_cell_at(g, row, col) ELSE Serial_next_cell_at(g, row, col)

Flip(g, row, col) ==
    [g EXCEPT !.cells[row * g.columns + col + 1] = IF @ = Live THEN Dead ELSE Live]

AllLive(g) == \A k \in DOMAIN g.cells : g.cells[k] = Live

(* The work unit that owns flat position k (1-based) of the output grid.    *)
UnitOf(g, k) == <<(k - 1) \div g.columns, (k - 1) % g.columns>>

(* ------------------------------ claims ---------------------------------- *)

(* C1: whatever the order in which the ParallelEngine's row and cell work   *)
(* units run, the grid it produces equals the grid the SerialEngine's       *)
(* generation step produces on the same input, in shape and in every cell;  *)
(* where the one ends in a panic, so does the other.                        *)
C1_StrategyEquivalence ==
    /\ (mode = "Parallel" /\ pc = "done") => next = Serial_prepare_next_grid(grid)
    /\ (mode = "Parallel" /\ pc = "panic") => Serial_prepare_next_grid(grid) = Panic

C1_Witness ==
    /\ mode = "Parallel" /\ pc = "done"
    /\ rows(grid) >= 2 /\ columns(grid) >= 2
    /\ \E k \in DOMAIN next.cells : next.cells[k] = Live
    /\ \E k \in DOMAIN next.cells : next.cells[k] = Dead /\ grid.cells[k] = Live

(* C2: after one generation step every cell of the result is Live iff the   *)
(* number of Live cells among the in-grid positions adjacent to it is 3, or *)
(* is 2 and the input cell is Live (the classical rule, no wraparound).     *)
C2_ClassicalRule ==
    pc = "done" =>
        /\ shape(next) = shape(grid)
        /\ \A p \in Positions(grid) :
              next.cells[p[1] * grid.columns + p[2] + 1] = Classical(grid, p[1], p[2])

(* C3: the positions examined for a target cell are exactly the in-grid     *)
(* positions (i, j) with max(row-1,0) <= i < row+2, max(col-1,0) <= j <     *)
(* col+2, centre excluded; so in an all-Live grid of at least 3x3 a corner  *)
(* counts 3, another border cell 5 and an interior cell 8.                  *)
C3_NeighbourWindow ==
    pc \in {"serial", "parallel", "done"} =>
        \A p \in Positions(grid) :
            /\ Examined(grid, p[1], p[2]) = Adjacent(grid, p[1], p[2])
            /\ (AllLive(grid) /\ rows(grid) >= 3 /\ columns(grid) >= 3) =>
                  LET onRowEdge == p[1] \in {0, rows(grid) - 1}
                      onColEdge == p[2] \in {0, columns(grid) - 1}
                  IN  LiveExamined(grid, p[1], p[2]) =
                        IF onRowEdge /\ onColEdge THEN 3
                        ELSE IF onRowEdge \/ onColEdge THEN 5
                        ELSE 8

(* C4: in a grid of shape (1, N) or (N, 1) with N >= 3 the next state of a  *)
(* cell at one end of the line is the same whether the cell at the opposite *)
(* end of the input is Live or Dead.                                        *)
C4_NoWraparound ==
    (pc = "done" /\ cells(grid) >= 3 /\ (rows(grid) = 1 \/ columns(grid) = 1)) =>
        LET last == cells(grid)
            lastRow == rows(grid) - 1
            lastCol == columns(grid) - 1
        IN  /\ next.cells[1] = EngineNextCellAt(Flip(grid, lastRow, lastCol), 0, 0)
            /\ next.cells[last] = EngineNextCellAt(Flip(grid, 0, 0), lastRow, lastCol)

(* C6: one generation step on a grid of any shape (R, C), the empty grid    *)
(* and grids with zero rows or zero columns included, ends without a fatal  *)
(* error and returns a grid of shape (R, C).                                *)
C6_ShapePreserved ==
    /\ pc # "panic"
    /\ pc = "done" => shape(next) = shape(grid)

(* C10: in a ParallelEngine step the work unit for (row, col) is handed     *)
(* output cell (row, col) and no other, no output cell is handed to two     *)
(* units, at the end every output cell was covered by exactly one unit, and *)
(* the input grid is never written.                                         *)
C10_Partition ==
    (mode = "Parallel" /\ pc \in {"parallel", "done"}) =>
        /\ \A k \in DOMAIN owners : owners[k] \subseteq {UnitOf(next, k)}
        /\ \A u \in cellUnits : <<u.row, u.col>> = UnitOf(next, u.pos)
        /\ \A u, v \in cellUnits : u.pos = v.pos => u = v
        /\ pc = "done" => \A k \in DOMAIN next.cells : owners[k] = {UnitOf(next, k)}

C10_InputFrozen == pc # "done" => grid' = grid

C10_DisjointWrites == []C10_Partition /\ [][C10_InputFrozen]_vars

C10_Witness ==
    /\ mode = "Parallel" /\ pc = "done"
    /\ rows(grid) >= 2 /\ columns(grid) >= 2
    /\ \E k \in DOMAIN next.cells : next.cells[k] = Live

(* C5: from the 5x5 grid whose only Live cells are (2,1),(2,2),(2,3) one    *)
(* generation step yields the grid whose only Live cells are (1,2),(2,2),   *)
(* (3,2), and a second step yields the starting grid again.                 *)
C5_Blinker ==
    /\ (pc = "idle" /\ gen = 1) => grid = VerticalBlinker
    /\ (pc = "idle" /\ gen = 2) => grid = HorizontalBlinker

(* C7: the grid built by new_with(rows, columns, c) (new: c = Dead) reports *)
(* rows() = rows, columns() = columns, cells() = rows * columns and holds c *)
(* in every cell; cells() = rows() * columns() holds of every grid reached  *)
(* by a construction followed by accessor writes.                           *)
C7_Construction ==
    /\ (call.op \in {"new", "new_with"} /\ pc # "panic") =>
          /\ rows(grid) = call.rows
          /\ columns(grid) = call.columns
          /\ cells(grid) = call.rows * call.columns
          /\ \A k \in DOMAIN grid.cells : grid.cells[k] = call.cell
    /\ cells(grid) = rows(grid) * columns(grid)

(* C8: try_from succeeds exactly when all rows of the input share one       *)
(* length (length 0 and the empty input included), and row-wise iteration   *)
(* over the grid it built yields the input rows, in order and element for   *)
(* element.                                                                 *)
SameLength(input) == \A i \in DOMAIN input : Len(input[i]) = Len(input[1])

C8_RoundTrip ==
    /\ call.op = "try_from" => (call.ret # None <=> SameLength(call.input))
    /\ (call.op = "iter" /\ call.src # None) =>
          /\ pc # "panic"
          /\ call.ret = call.src[1]

(* C9: get_cell(row, col) returns None when row >= rows() or col >=         *)
(* columns(), also when row * columns overflows, and never ends in a fatal  *)
(* error; otherwise it returns the cell at flat index row * columns + col.  *)
C9_BoundsContract ==
    call.op = "get_cell" =>
        /\ pc # "panic"
        /\ IF call.row >= rows(grid) \/ call.col >= columns(grid)
           THEN call.ret = None
           ELSE call.ret = Some(grid.cells[call.row * columns(grid) + call.col + 1])

(* An out-of-range column whose flat index lies inside the buffer.          *)
C9_Witness ==
    /\ call.op = "get_cell"
    /\ call.row < rows(grid)
    /\ call.col >= columns(grid)
    /\ call.row * columns(grid) + call.col < cells(grid)
    /\ grid.cells[call.row * columns(grid) + call.col + 1] = Live
    /\ call.ret = None

(* C11: started with the iteration cap N (the `iterations` option), the     *)
(* driver loop, non-rendering or interactive, performs at most N generation *)
(* updates.                                                                 *)
C11_IterationCap ==
    (call.op \in {"run_non_stop", "run_interactive"} /\ call.iterations # None) =>
        gen <= call.iterations[1]

(* The grid g advanced by n generations of the serial step.                 *)
RECURSIVE Advance(_, _)
Advance(g, n) == IF n = 0 THEN g ELSE Advance(Serial_prepare_next_grid(g), n - 1)

(* C12: every call of next_grid returns the grid the SerialEngine held just *)
(* before the call and leaves it holding that grid's one-generation         *)
(* successor; the k-th call of a run returns the grid held at the start of  *)
(* the run advanced by k - 1 generations; Iter::next always yields Some.    *)
C12_NextGrid ==
    call.op \in {"next_grid", "next"} =>
        /\ pc # "panic"
        /\ call.ret # None
        /\ LET returned == IF call.op = "next" THEN call.ret[1][1] ELSE call.ret[1]
           IN  /\ call.op = "next" => call.ret[1] # None
               /\ returned = call.held
               /\ grid = Serial_prepare_next_grid(call.held)
               /\ returned = Advance(call.base, call.k - 1)

CellAt(g, row, col) == g.cells[row * g.columns + col + 1]

(* C13: set_grid_at(g, (r0, c0)) on a held grid H ends without error,       *)
(* leaves H's shape and every cell of H outside the rectangle               *)
(* [r0, r0 + g.rows) x [c0, c0 + g.columns) as they were, and sets the cell *)
(* (r0 + i, c0 + j) of H, when in bounds, to g[i][j].                       *)
C13_SetGridAt ==
    call.op \in {"set_grid_at", "set_grid"} =>
        /\ pc # "panic"
        /\ shape(grid) = shape(call.before)
        /\ \A p \in Positions(call.before) :
              LET i == p[1] - call.start[1]
                  j == p[2] - call.start[2]
              IN  IF i \in 0..(rows(call.src) - 1) /\ j \in 0..(columns(call.src) - 1)
                  THEN CellAt(grid, p[1], p[2]) = CellAt(call.src, i, j)
                  ELSE CellAt(grid, p[1], p[2]) = CellAt(call.before, p[1], p[2])

====
